---- MODULE Spec2Model ----
(***************************************************************************)
(* A model of the boolean-circuit core in src/src/circuit.go: the circuit  *)
(* builder (initializeCircuit, addGate, addGate2, connectOutputWire), the  *)
(* structural validator (validCircuit), the evaluator (EvaluateCircuit,    *)
(* evaluateGate) and the bit codec (PadInputsToBoolArray,                  *)
(* DecodeOutputVariables, boolArrayToBytes).                               *)
(*                                                                         *)
(* Go slices are modelled as TLA+ sequences; the Go index i of a slice s   *)
(* is position i+1 of the sequence (At(s, i)).  A Go runtime panic (index  *)
(* out of range) is the outcome "panic" of the call that raises it.        *)
(***************************************************************************)
EXTENDS Integers, Sequences, FiniteSets, TLC

VARIABLES circ, call

vars == <<circ, call>>

(***************************************************************************)
(* Bounds of the model.                                                    *)
(***************************************************************************)
\* largest number of input wires given to initializeCircuit
MaxIn == 2
\* largest number of output wires given to initializeCircuit
MaxOut == 2
\* largest number of gates added after initializeCircuit
MaxExtra == 2
\* largest total number of gates of a circuit
MaxGates == 4
\* largest number of variables of a circuit handed to the codec
MaxVars == 2
\* largest number of wires of a circuit handed to the codec
MaxCodecWires == 16
\* longest byte buffer handed to the codec
MaxBufLen == 2
\* longest output vector of which every value is handed to DecodeOutputVariables
MaxAllBits == 9
\* longest predecessor list handed to addGate when its arity test is exercised
MaxPreds == 3
\* largest gate index in those predecessor lists
MaxArityId == 1
\* gates added to a circuit when the arity test of addGate is exercised
MaxArityExtra == 1

MAX_INPUT_DEGREE == 2

(***************************************************************************)
(* Gate kinds and the fan-in table.                                        *)
(***************************************************************************)
GateINPUT == 0
GateOUTPUT == 1
GateAND == 2
GateOR == 3
GateNOT == 4
GateXOR == 5
GateCONST == 6
GateCOPY == 7

GateTypes == {GateINPUT, GateOUTPUT, GateAND, GateOR, GateNOT, GateXOR, GateCONST, GateCOPY}

\* s[i] of the Go source: the element at the 0-based index i
At(s, i) == s[i + 1]

\* i is a valid Go index of the slice s
InRange(s, i) == i >= 0 /\ i < Len(s)

min_input_wires == <<0, 0, 2, 2, 1, 2, 0, 1>>
max_input_wires == <<0, 1, 2, 2, 1, 2, 0, 1>>

\* the zero value of the Circuit struct
ZeroCircuit ==
    [NumInputWires |-> 0, NumOutputWires |-> 0,
     NumInputVars |-> 0, NumWiresIV |-> <<>>,
     NumOutputVars |-> 0, NumWiresOV |-> <<>>,
     Gates |-> <<>>]

\* the Gate struct
Gate(gateType, constVal, inFrom) ==
    [GateType |-> gateType, ConstVal |-> constVal, InFrom |-> inFrom]

(***************************************************************************)
(* The circuit builder.  Each operator returns the circuit after the call  *)
(* and the call's return value.                                            *)
(***************************************************************************)
\* BadArity without the test against the minimum
BadArity_maxOnly(gateType, n) ==
    n > At(max_input_wires, gateType)

\* the arity test of addGate and validCircuit: the fan-in n is outside the kind's range
BadArity(gateType, n) ==
    n < At(min_input_wires, gateType) \/ n > At(max_input_wires, gateType)

addGate(c, gateType, constVal, inFrom) ==
    IF BadArity(gateType, Len(inFrom))
    THEN [circ |-> c, ret |-> -1]
    ELSE LET gates == Append(c.Gates, Gate(gateType, constVal, inFrom))
         IN  [circ |-> [c EXCEPT !.Gates = gates], ret |-> Len(gates) - 1]

addGate2(c, gateType, inFrom1, inFrom2) ==
    addGate(c, gateType, FALSE, <<inFrom1, inFrom2>>)

getInputGate(c, inputWireNo) == inputWireNo

getOutputGate(c, outputWireNo) == c.NumInputWires + outputWireNo

\* the two loops of initializeCircuit: n calls of addGate(gateType, false, nil)
RECURSIVE AddPlaceholders(_, _, _)
AddPlaceholders(c, gateType, n) ==
    IF n <= 0 THEN c
    ELSE AddPlaceholders(addGate(c, gateType, FALSE, <<>>).circ, gateType, n - 1)

initializeCircuit(c, numInputWires, numOutputWires, numInputVars, numOutputVars, numWiresPerIV, numWiresPerOV) ==
    LET c1 == [c EXCEPT !.NumInputWires = numInputWires,
                        !.NumOutputWires = numOutputWires,
                        !.NumInputVars = numInputVars,
                        !.NumOutputVars = numOutputVars,
                        !.NumWiresIV = numWiresPerIV,
                        !.NumWiresOV = numWiresPerOV]
        c2 == AddPlaceholders(c1, GateINPUT, numInputWires)
    IN  AddPlaceholders(c2, GateOUTPUT, numOutputWires)

\* connectOutputWire without the test that the slot is still unwired
connectOutputWire_rewire(c, gateNum, outputNum) ==
    LET g == getOutputGate(c, outputNum)
    IN  IF ~InRange(c.Gates, g)
        THEN [circ |-> c, ret |-> "panic"]
        ELSE [circ |-> [c EXCEPT !.Gates[g + 1].InFrom = <<gateNum>>],
              ret |-> "true"]

\* connectOutputWire that appends the gate to a list that is not empty
connectOutputWire_append(c, gateNum, outputNum) ==
    LET g == getOutputGate(c, outputNum)
    IN  IF ~InRange(c.Gates, g)
        THEN [circ |-> c, ret |-> "panic"]
        ELSE [circ |-> [c EXCEPT !.Gates[g + 1].InFrom = Append(@, gateNum)],
              ret |-> "true"]

\* ret is "true", "false" or "panic" (the gate index is outside circ.Gates)
connectOutputWire(c, gateNum, outputNum) ==
    LET g == getOutputGate(c, outputNum)
    IN  IF ~InRange(c.Gates, g)
        THEN [circ |-> c, ret |-> "panic"]
        ELSE IF Len(At(c.Gates, g).InFrom) = 0
             THEN [circ |-> [c EXCEPT !.Gates[g + 1].InFrom = Append(@, gateNum)],
                   ret |-> "true"]
             ELSE [circ |-> c, ret |-> "false"]

(***************************************************************************)
(* The structural validator.                                               *)
(***************************************************************************)
\* validCircuit that only counts the gates
validCircuit_countOnly(c) ==
    ~(Len(c.Gates) < c.NumInputWires + c.NumOutputWires)

validCircuit(c) ==
    IF Len(c.Gates) < c.NumInputWires + c.NumOutputWires
    THEN FALSE
    ELSE \A i \in 0..(Len(c.Gates) - 1) :
            ~BadArity(At(c.Gates, i).GateType, Len(At(c.Gates, i).InFrom))

(***************************************************************************)
(* The evaluator.  The memory evaluateGate reaches through its pointer     *)
(* arguments is the record st: the three scratch slices, the caller's      *)
(* input slice, and calls, a count of the invocations of evaluateGate      *)
(* (not in the source: it measures the length of the run).  Three more     *)
(* fields observe the run without taking part in it: stack, the gates      *)
(* whose evaluateGate call has not returned yet; failed, the gates whose   *)
(* call returned failure since visited was last cleared; and spurious,     *)
(* set when the cycle test fires for a gate that is in neither set.        *)
(***************************************************************************)
\* make([]bool, n): n elements, all false
MakeBools(n) == [i \in 1..n |-> FALSE]

\* s with the element at the 0-based index i set to v
Store(s, i, v) == [s EXCEPT ![i + 1] = v]

\* the outcome of one case of the switch on the gate kind
Case(success, result) ==
    [status |-> IF success THEN "ok" ELSE "fail", result |-> result]

\* case GateINPUT: the input bit at the gate's own index; a panic when the
\* index is outside the input slice
InputGate(gateID, inputs) ==
    IF InRange(inputs, gateID)
    THEN Case(TRUE, At(inputs, gateID))
    ELSE [status |-> "panic", result |-> FALSE]

\* WireGate that reports success whatever its predecessor reported
WireGate_noFail(n, success1, result1) ==
    IF n = 1 THEN Case(TRUE, result1) ELSE Case(FALSE, FALSE)

\* cases GateOUTPUT and GateCOPY: the predecessor's success and result
WireGate(n, success1, result1) ==
    IF n = 1 THEN Case(success1, result1) ELSE Case(FALSE, FALSE)

\* case GateAND
AndGate(n, success1, result1, success2, result2) ==
    IF n = 2 /\ success1 /\ success2
    THEN Case(TRUE, result1 /\ result2)
    ELSE Case(FALSE, FALSE)

\* XorGate computing an inclusive or
XorGate_asOr(n, success1, result1, success2, result2) ==
    IF n = 2 /\ success1 /\ success2
    THEN Case(TRUE, result1 \/ result2)
    ELSE Case(FALSE, FALSE)

\* case GateXOR
XorGate(n, success1, result1, success2, result2) ==
    IF n = 2 /\ success1 /\ success2
    THEN Case(TRUE, result1 # result2)
    ELSE Case(FALSE, FALSE)

\* case GateCONST: the stored constant when the gate has no predecessor,
\* false otherwise; it never fails
ConstGate(n, constVal) ==
    Case(TRUE, IF n = 0 THEN constVal ELSE FALSE)

\* case GateOR
OrGate(n, success1, result1, success2, result2) ==
    IF n = 2 /\ success1 /\ success2
    THEN Case(TRUE, result1 \/ result2)
    ELSE Case(FALSE, FALSE)

\* case GateNOT
NotGate(n, success1, result1) ==
    IF n = 1 /\ success1
    THEN Case(TRUE, ~result1)
    ELSE Case(FALSE, FALSE)

\* the switch on the gate kind: the gate's success flag and result, or a panic
Dispatch(gate, gateID, success1, result1, success2, result2, inputs) ==
    LET n == Len(gate.InFrom)
        t == gate.GateType
    IN  CASE t = GateINPUT -> InputGate(gateID, inputs)
          [] t = GateOUTPUT -> WireGate(n, success1, result1)
          [] t = GateCOPY -> WireGate(n, success1, result1)
          [] t = GateAND -> AndGate(n, success1, result1, success2, result2)
          [] t = GateXOR -> XorGate(n, success1, result1, success2, result2)
          [] t = GateCONST -> ConstGate(n, gate.ConstVal)
          [] t = GateOR -> OrGate(n, success1, result1, success2, result2)
          [] t = GateNOT -> NotGate(n, success1, result1)
          [] OTHER -> Case(FALSE, FALSE)

\* Memoize that never marks a gate calculated
Memoize_forget(st, gateID, success, result) == st

\* the end of evaluateGate: a successful gate is memoized, a failed one is not
Memoize(st, gateID, success, result) ==
    IF success
    THEN [st EXCEPT !.calculated = Store(@, gateID, TRUE),
                    !.values = Store(@, gateID, result)]
    ELSE st

\* the cycle test of evaluateGate has fired for gateID: spurious records whether
\* the gate is neither on the recursion stack nor failed in this pass
CycleFound(st, gateID) ==
    [st EXCEPT !.spurious = @ \/ (gateID \notin st.stack /\ gateID \notin st.failed)]

\* evaluateGate starts on gateID: the gate is marked visited and is on the stack
Enter(st, gateID) ==
    [st EXCEPT !.visited = Store(@, gateID, TRUE), !.stack = @ \cup {gateID}]

\* evaluateGate returns from gateID: the gate leaves the stack
Leave(st, gateID, success) ==
    [st EXCEPT !.stack = @ \ {gateID},
               !.failed = IF success THEN @ ELSE @ \cup {gateID}]

\* the outcome of an evaluateGate call: status is "ok" (success), "fail" or "panic"
GateOutcome(status, result, st) == [status |-> status, result |-> result, st |-> st]

RECURSIVE evaluateGate(_, _, _)
evaluateGate(c, gateID, st0) ==
    LET st == [st0 EXCEPT !.calls = @ + 1]
    IN
    IF ~InRange(st.visited, gateID)
    THEN GateOutcome("panic", FALSE, st)
    ELSE IF At(st.visited, gateID) /\ ~At(st.calculated, gateID)
    THEN GateOutcome("fail", FALSE, CycleFound(st, gateID))
    ELSE IF At(st.calculated, gateID)
    THEN GateOutcome("ok", At(st.values, gateID), st)
    ELSE
    LET gate == At(c.Gates, gateID)
        st1 == Enter(st, gateID)
        recurse == gate.GateType # GateINPUT
    IN
    IF recurse /\ Len(gate.InFrom) = 0
    THEN GateOutcome("panic", FALSE, st1)
    ELSE
    LET r1 == IF recurse
              THEN evaluateGate(c, At(gate.InFrom, 0), st1)
              ELSE GateOutcome("fail", FALSE, st1)
    IN
    IF r1.status = "panic"
    THEN r1
    ELSE
    LET r2 == IF recurse /\ Len(gate.InFrom) = 2
              THEN evaluateGate(c, At(gate.InFrom, 1), r1.st)
              ELSE GateOutcome("fail", FALSE, r1.st)
    IN
    IF r2.status = "panic"
    THEN r2
    ELSE
    LET d == Dispatch(gate, gateID, r1.status = "ok", r1.result,
                      r2.status = "ok", r2.result, r2.st.inputs)
    IN  GateOutcome(d.status, d.result,
                    IF d.status = "panic" THEN r2.st
                    ELSE Leave(Memoize(r2.st, gateID, d.status = "ok", d.result),
                               gateID, d.status = "ok"))

\* ShapeMismatch that accepts a vector longer than the wire count
ShapeMismatch_shortOnly(c, inputBits) ==
    Len(inputBits) < c.NumInputWires \/ c.NumOutputWires < 1

\* the precondition test of EvaluateCircuit
ShapeMismatch(c, inputBits) ==
    Len(inputBits) # c.NumInputWires \/ c.NumOutputWires < 1

\* the scratch slices EvaluateCircuit allocates
FreshScratch(c, inputBits) ==
    [visited |-> MakeBools(Len(c.Gates)),
     calculated |-> MakeBools(Len(c.Gates)),
     values |-> MakeBools(Len(c.Gates)),
     inputs |-> inputBits,
     calls |-> 0, stack |-> {}, failed |-> {}, spurious |-> FALSE]

\* the inner loop of EvaluateCircuit: visited is cleared before each output wire
ClearVisited(st) == [st EXCEPT !.visited = MakeBools(Len(@)), !.failed = {}]

\* a slice result that may be nil
NilSlice == [nil |-> TRUE, v |-> <<>>]
Slice(s) == [nil |-> FALSE, v |-> s]

\* EvalOutcome of an evaluator that keeps each computed value in its gate
EvalOutcome_cacheInGate(status, result, c, st) ==
    [status |-> status, result |-> result,
     circ |-> [c EXCEPT !.Gates =
                  [i \in DOMAIN c.Gates |->
                      IF st.calculated[i]
                      THEN [c.Gates[i] EXCEPT !.ConstVal = st.values[i]]
                      ELSE c.Gates[i]]],
     inputBits |-> st.inputs, st |-> st]

\* what EvaluateCircuit returns and leaves behind: status "ok" is (true, result),
\* "fail" is (false, nil), "panic" is a run-time panic; circ and inputBits are
\* the circuit and the caller's slice after the call, st the scratch memory
EvalOutcome(status, result, c, st) ==
    [status |-> status, result |-> result, circ |-> c,
     inputBits |-> st.inputs, st |-> st]

\* EvalOutputs that hands back the bits computed so far when a wire fails
RECURSIVE EvalOutputs_partial(_, _, _, _)
EvalOutputs_partial(c, i, st, result) ==
    IF i >= c.NumOutputWires
    THEN EvalOutcome("ok", Slice(result), c, st)
    ELSE LET r == evaluateGate(c, getOutputGate(c, i), ClearVisited(st))
         IN  IF r.status = "panic"
             THEN EvalOutcome("panic", NilSlice, c, r.st)
             ELSE IF r.status = "fail"
             THEN EvalOutcome("fail", Slice(Store(result, i, r.result)), c, r.st)
             ELSE EvalOutputs_partial(c, i + 1, r.st, Store(result, i, r.result))

\* the loop of EvaluateCircuit over the output wires, from wire i on
RECURSIVE EvalOutputs(_, _, _, _)
EvalOutputs(c, i, st, result) ==
    IF i >= c.NumOutputWires
    THEN EvalOutcome("ok", Slice(result), c, st)
    ELSE LET r == evaluateGate(c, getOutputGate(c, i), ClearVisited(st))
         IN  IF r.status = "panic"
             THEN EvalOutcome("panic", NilSlice, c, r.st)
             ELSE IF r.status = "fail"
             THEN EvalOutcome("fail", NilSlice, c, r.st)
             ELSE EvalOutputs(c, i + 1, r.st, Store(result, i, r.result))

EvaluateCircuit(c, inputBits) ==
    IF ShapeMismatch(c, inputBits)
    THEN [status |-> "fail", result |-> NilSlice, circ |-> c,
          inputBits |-> inputBits,
          st |-> [visited |-> <<>>, calculated |-> <<>>, values |-> <<>>,
                  inputs |-> inputBits, calls |-> 0,
                  stack |-> {}, failed |-> {}, spurious |-> FALSE]]
    ELSE EvalOutputs(c, 0, FreshScratch(c, inputBits), MakeBools(c.NumOutputWires))

(***************************************************************************)
(* The bit codec.  A byte is a number in 0..255.                           *)
(***************************************************************************)
\* 1 << n
Shl(n) == 2 ^ n

\* InputBit reading the bytes of the buffer from the front
InputBit_fromFront(buf, j) ==
    (buf[(j \div 8) + 1] \div Shl(j % 8)) % 2 = 1

\* the bit PadInputsToBoolArray takes off the buffer for the wire offset j:
\* int(buf[len(buf) - j/8 - 1]) & (1 << (j % 8)) != 0
InputBit(buf, j) ==
    (At(buf, Len(buf) - (j \div 8) - 1) \div Shl(j % 8)) % 2 = 1

\* what a loop of PadInputsToBoolArray has done so far: the result slice, the
\* next wire to fill, and status "ok", "nil" (return nil) or "panic"
PadState(status, result, currentLoc) ==
    [status |-> status, result |-> result, currentLoc |-> currentLoc]

\* the inner loop of PadInputsToBoolArray: the wires of one variable, from offset j on
RECURSIVE PadWires(_, _, _, _)
PadWires(ps, buf, j, n) ==
    IF j >= n THEN ps
    ELSE IF ~InRange(ps.result, ps.currentLoc)
    THEN PadState("panic", ps.result, ps.currentLoc)
    ELSE PadWires(PadState("ok",
                           Store(ps.result, ps.currentLoc,
                                 IF (j \div 8) < Len(buf) THEN InputBit(buf, j) ELSE FALSE),
                           ps.currentLoc + 1),
                  buf, j + 1, n)

\* the outer loop of PadInputsToBoolArray: the buffers from index i on
RECURSIVE PadBufs(_, _, _, _)
PadBufs(c, inputBufs, i, ps) ==
    IF i >= Len(inputBufs) THEN ps
    ELSE IF ~InRange(c.NumWiresIV, i)
    THEN PadState("panic", ps.result, ps.currentLoc)
    ELSE IF Len(At(inputBufs, i)) * 8 > At(c.NumWiresIV, i)
    THEN PadState("nil", ps.result, ps.currentLoc)
    ELSE LET ps1 == PadWires(ps, At(inputBufs, i), 0, At(c.NumWiresIV, i))
         IN  IF ps1.status # "ok" THEN ps1
             ELSE PadBufs(c, inputBufs, i + 1, ps1)

\* PadInputsToBoolArray without the test of the number of buffers
PadInputsToBoolArray_noCount(c, inputBufs) ==
    LET ps == PadBufs(c, inputBufs, 0, PadState("ok", MakeBools(c.NumInputWires), 0))
    IN  CASE ps.status = "ok" -> [status |-> "ok", ret |-> Slice(ps.result)]
          [] ps.status = "nil" -> [status |-> "ok", ret |-> NilSlice]
          [] OTHER -> [status |-> "panic", ret |-> NilSlice]

\* status is "ok" (ret is what the call returned, a slice or nil) or "panic"
PadInputsToBoolArray(c, inputBufs) ==
    IF Len(inputBufs) > c.NumInputVars
    THEN [status |-> "ok", ret |-> NilSlice]
    ELSE LET ps == PadBufs(c, inputBufs, 0, PadState("ok", MakeBools(c.NumInputWires), 0))
         IN  CASE ps.status = "ok" -> [status |-> "ok", ret |-> Slice(ps.result)]
               [] ps.status = "nil" -> [status |-> "ok", ret |-> NilSlice]
               [] OTHER -> [status |-> "panic", ret |-> NilSlice]

\* make([]byte, n): n zero bytes
MakeBytes(n) == [i \in 1..n |-> 0]

\* the loop of boolArrayToBytes, from bit i on: a set bit is added to the byte
\* at len(result) - i/8 - 1
RECURSIVE AddBits(_, _, _)
AddBits(input, i, result) ==
    IF i >= Len(input) THEN result
    ELSE AddBits(input, i + 1,
                 IF At(input, i)
                 THEN LET q == Len(result) - (i \div 8) - 1
                      IN  Store(result, q, (At(result, q) + Shl(i % 8)) % 256)
                 ELSE result)

\* boolArrayToBytes filling the bytes from the front
boolArrayToBytes_fromFront(input) ==
    [q \in 1..((Len(input) + 7) \div 8) |->
        LET V(b) == IF (q - 1) * 8 + b < Len(input) /\ At(input, (q - 1) * 8 + b)
                    THEN Shl(b) ELSE 0
        IN  V(0) + V(1) + V(2) + V(3) + V(4) + V(5) + V(6) + V(7)]

boolArrayToBytes(input) ==
    AddBits(input, 0, MakeBytes((Len(input) + 7) \div 8))

\* SubSlice that always starts at the first wire
SubSlice_fromStart(s, lo, hi) == SubSeq(s, 1, hi - lo)

\* s[lo:hi]
SubSlice(s, lo, hi) == SubSeq(s, lo + 1, hi)

\* the loop of DecodeOutputVariables, from variable i on; a slice that ends
\* past the output vector is a panic
RECURSIVE DecodeVars(_, _, _, _, _)
DecodeVars(c, outWires, i, currentWire, result) ==
    IF i >= c.NumOutputVars
    THEN [status |-> "ok", ret |-> Slice(result)]
    ELSE IF ~InRange(c.NumWiresOV, i)
            \/ At(c.NumWiresOV, i) < 0
            \/ currentWire + At(c.NumWiresOV, i) > Len(outWires)
    THEN [status |-> "panic", ret |-> NilSlice]
    ELSE LET boolSlice == SubSlice(outWires, currentWire, currentWire + At(c.NumWiresOV, i))
         IN  DecodeVars(c, outWires, i + 1, currentWire + At(c.NumWiresOV, i),
                        Append(result, boolArrayToBytes(boolSlice)))

\* status is "ok" (ret is what the call returned, the buffers or nil) or "panic"
DecodeOutputVariables(c, outWires) ==
    IF c.NumOutputWires # Len(outWires)
    THEN [status |-> "ok", ret |-> NilSlice]
    ELSE DecodeVars(c, outWires, 0, 0, <<>>)

(***************************************************************************)
(* The state machine: a caller that initializes a circuit once and then    *)
(* calls the builder, the validator and the evaluator in any order, one    *)
(* call at a time.  call records the call that has just returned: its      *)
(* name, its arguments and what it returned; the caller takes the result   *)
(* (Return) before it makes its next call.                                 *)
(***************************************************************************)
\* gate indices a caller passes (the source does not check them against the gate count)
GateIds == 0..(MaxGates - 1)

\* sequences over S of length n
RECURSIVE SeqsOfLen(_, _)
SeqsOfLen(S, n) ==
    IF n = 0 THEN {<<>>}
    ELSE {Append(s, x) : s \in SeqsOfLen(S, n - 1), x \in S}

\* sequences over S of length at most n
SeqsUpTo(S, n) == UNION {SeqsOfLen(S, k) : k \in 0..n}

\* predecessor lists handed to addGate
PredLists == SeqsUpTo(GateIds, MAX_INPUT_DEGREE)

\* constants handed to addGate: both values for a Const gate, false for the
\* kinds that never read the constant
ConstVals(gateType) == IF gateType = GateCONST THEN BOOLEAN ELSE {FALSE}

\* input vectors handed to EvaluateCircuit: of the circuit's wire count, one
\* shorter and one longer
InputVectors ==
    {b \in SeqsUpTo(BOOLEAN, MaxIn + 1) :
        Len(b) \in (circ.NumInputWires - 1)..(circ.NumInputWires + 1)}

\* output wire numbers handed to connectOutputWire: the circuit's output wires
\* and the number one past the last
OutputNums == 0..circ.NumOutputWires

\* one variable holding all n wires, none when there are no wires
OneVar(n) == IF n = 0 THEN <<>> ELSE <<n>>

\* the caller is between two calls
Ready == call.op = "none"

\* there is room for one more gate within the bounds
Room ==
    /\ Len(circ.Gates) < MaxGates
    /\ Len(circ.Gates) < circ.NumInputWires + circ.NumOutputWires + MaxExtra

Init ==
    /\ circ = ZeroCircuit
    /\ call = [op |-> "new"]

Initialize(numInputWires, numOutputWires) ==
    /\ call.op = "new"
    /\ circ' = initializeCircuit(circ, numInputWires, numOutputWires,
                                 Len(OneVar(numInputWires)), Len(OneVar(numOutputWires)),
                                 OneVar(numInputWires), OneVar(numOutputWires))
    /\ call' = [op |-> "initializeCircuit"]

AddGate(gateType, constVal, inFrom) ==
    /\ Ready
    /\ Room
    /\ LET r == addGate(circ, gateType, constVal, inFrom)
       IN  /\ circ' = r.circ
           /\ call' = [op |-> "addGate", gateType |-> gateType, constVal |-> constVal,
                       inFrom |-> inFrom, ret |-> r.ret]

AddGate2(gateType, inFrom1, inFrom2) ==
    /\ Ready
    /\ Room
    /\ LET r == addGate2(circ, gateType, inFrom1, inFrom2)
       IN  /\ circ' = r.circ
           /\ call' = [op |-> "addGate2", gateType |-> gateType, inFrom1 |-> inFrom1,
                       inFrom2 |-> inFrom2, ret |-> r.ret]

ConnectOutputWire(gateNum, outputNum) ==
    /\ Ready
    /\ LET r == connectOutputWire(circ, gateNum, outputNum)
       IN  /\ circ' = r.circ
           /\ call' = [op |-> "connectOutputWire", gateNum |-> gateNum,
                       outputNum |-> outputNum, ret |-> r.ret]

ValidCircuit ==
    /\ Ready
    /\ call' = [op |-> "validCircuit", ret |-> validCircuit(circ)]
    /\ UNCHANGED circ

Evaluate(inputBits) ==
    /\ Ready
    /\ LET r == EvaluateCircuit(circ, inputBits)
       IN  /\ circ' = r.circ
           /\ call' = [op |-> "EvaluateCircuit", inputBits |-> inputBits,
                       status |-> r.status, result |-> r.result,
                       inputAfter |-> r.inputBits, st |-> r.st]

Return ==
    /\ call.op \notin {"new", "none"}
    /\ call' = [op |-> "none"]
    /\ UNCHANGED circ

\* the caller's choice of a call and its arguments; Ready and Room are the
\* guards of the actions, tested here once before the arguments are drawn
Next ==
    \/ \E n \in 1..MaxIn, m \in 0..MaxOut : Initialize(n, m)
    \/ Ready /\ Room /\ \E t \in GateTypes : \E v \in ConstVals(t), p \in PredLists : AddGate(t, v, p)
    \/ Ready /\ Room /\ \E t \in GateTypes, a \in GateIds, b \in GateIds : AddGate2(t, a, b)
    \/ Ready /\ \E g \in GateIds, o \in OutputNums : ConnectOutputWire(g, o)
    \/ ValidCircuit
    \/ Ready /\ \E b \in InputVectors : Evaluate(b)
    \/ Return

Spec == Init /\ [][Next]_vars

(***************************************************************************)
(* The arity test of addGate on its own: the caller hands addGate every    *)
(* kind, both constants and every predecessor list of up to MaxPreds       *)
(* elements, on a circuit with fewer than MaxArityExtra gates added.       *)
(***************************************************************************)
ArityLists == SeqsUpTo(0..MaxArityId, MaxPreds)

\* there is room for one more gate within the bounds of the arity test
ArityRoom == Len(circ.Gates) < circ.NumInputWires + circ.NumOutputWires + MaxArityExtra

NextArity ==
    \/ \E n \in 1..MaxIn, m \in 0..MaxOut : Initialize(n, m)
    \/ Ready /\ Room /\ ArityRoom /\ \E t \in GateTypes, v \in BOOLEAN, p \in ArityLists : AddGate(t, v, p)
    \/ Return

SpecArity == Init /\ [][NextArity]_vars

(***************************************************************************)
(* The builder on its own, used as its contract describes: the caller      *)
(* hands connectOutputWire the numbers of the circuit's output wires only, *)
(* and calls validCircuit between the builder calls.                       *)
(***************************************************************************)
\* the numbers of the circuit's output wires
OutputWireNums == 0..(circ.NumOutputWires - 1)

NextBuilder ==
    \/ \E n \in 1..MaxIn, m \in 0..MaxOut : Initialize(n, m)
    \/ Ready /\ Room /\ \E t \in GateTypes : \E v \in ConstVals(t), p \in PredLists : AddGate(t, v, p)
    \/ Ready /\ Room /\ \E t \in GateTypes, a \in GateIds, b \in GateIds : AddGate2(t, a, b)
    \/ Ready /\ \E g \in GateIds, o \in OutputWireNums : ConnectOutputWire(g, o)
    \/ ValidCircuit
    \/ Return

SpecBuilder == Init /\ [][NextBuilder]_vars

(***************************************************************************)
(* The codec on its own: a caller that initializes a circuit with a        *)
(* partition of its wires into variables (the same on the input and the    *)
(* output side), may build the identity circuit on it (one Copy gate per   *)
(* input wire, wired to the output wire of the same number), and calls     *)
(* PadInputsToBoolArray and DecodeOutputVariables, alone or around         *)
(* EvaluateCircuit.                                                        *)
(***************************************************************************)
\* the sum of the first n elements of a sequence of numbers
RECURSIVE SumTo(_, _)
SumTo(s, n) == IF n <= 0 THEN 0 ELSE s[n] + SumTo(s, n - 1)

\* widths of the variables: below a byte, a byte, above a byte, two bytes
CodecWidths == {w \in {1, 3, 8, 9, 16} : w <= MaxCodecWires}

\* the partitions of wires into variables
Partitions ==
    {p \in SeqsUpTo(CodecWidths, MaxVars) : SumTo(p, Len(p)) <= MaxCodecWires}

\* byte values the longer buffers are made of
ByteVals == {0, 1, 5, 90, 128, 255}

\* buffers of up to MaxBufLen bytes, and every buffer of one byte
Buffers == SeqsUpTo(ByteVals, MaxBufLen) \cup {<<b>> : b \in 0..255}

\* byte values the buffers of a list of several are made of
ListBytes == {5, 128}

\* buffer lists handed to PadInputsToBoolArray: up to MaxVars buffers, and
\* every list of one of the buffers above
BufferLists ==
    SeqsUpTo(SeqsUpTo(ListBytes, MaxBufLen), MaxVars) \cup {<<b>> : b \in Buffers}

\* vectors of n wires: none set, all set, one set, every other one set
Patterns(n) ==
    IF n < 0 THEN {}
    ELSE {[i \in 1..n |-> FALSE], [i \in 1..n |-> TRUE], [i \in 1..n |-> i % 2 = 0]}
            \cup {[i \in 1..n |-> i = k] : k \in 1..n}

\* output vectors handed to DecodeOutputVariables: of the circuit's wire count
\* (every vector when it is short enough), one shorter and one longer
OutputVectors ==
    (IF circ.NumOutputWires <= MaxAllBits
     THEN SeqsOfLen(BOOLEAN, circ.NumOutputWires)
     ELSE Patterns(circ.NumOutputWires))
       \cup Patterns(circ.NumOutputWires - 1) \cup Patterns(circ.NumOutputWires + 1)

\* the identity circuit on c, from wire i on: a Copy gate on input wire i,
\* connected to output wire i
RECURSIVE IdentityCircuit(_, _)
IdentityCircuit(c, i) ==
    IF i >= c.NumInputWires THEN c
    ELSE LET a == addGate(c, GateCOPY, FALSE, <<getInputGate(c, i)>>)
         IN  IdentityCircuit(connectOutputWire(a.circ, a.ret, i).circ, i + 1)

\* gates were added after initializeCircuit
Built == Len(circ.Gates) > circ.NumInputWires + circ.NumOutputWires

\* the circuit is the identity circuit
IsIdentity == circ = IdentityCircuit(initializeCircuit(ZeroCircuit, circ.NumInputWires, circ.NumOutputWires, circ.NumInputVars, circ.NumOutputVars, circ.NumWiresIV, circ.NumWiresOV), 0)

InitializeCodec(wires) ==
    /\ call.op = "new"
    /\ circ' = initializeCircuit(circ, SumTo(wires, Len(wires)), SumTo(wires, Len(wires)),
                                 Len(wires), Len(wires), wires, wires)
    /\ call' = [op |-> "initializeCircuit"]

BuildIdentity ==
    /\ Ready
    /\ Len(circ.Gates) = circ.NumInputWires + circ.NumOutputWires
    /\ circ.NumInputWires > 0
    /\ circ' = IdentityCircuit(circ, 0)
    /\ call' = [op |-> "identity"]

Pack(inputBufs) ==
    /\ Ready
    /\ LET r == PadInputsToBoolArray(circ, inputBufs)
       IN  call' = [op |-> "PadInputsToBoolArray", inputBufs |-> inputBufs,
                    status |-> r.status, ret |-> r.ret]
    /\ UNCHANGED circ

Decode(outWires) ==
    /\ Ready
    /\ LET r == DecodeOutputVariables(circ, outWires)
       IN  call' = [op |-> "DecodeOutputVariables", outWires |-> outWires,
                    status |-> r.status, ret |-> r.ret]
    /\ UNCHANGED circ

\* DecodeOutputVariables(EvaluateCircuit(PadInputsToBoolArray([buffer]))); a
\* step that returns nil or fails ends the chain, the later results are nil
RoundTrip(buffer) ==
    /\ Ready
    /\ Built
    /\ LET p == PadInputsToBoolArray(circ, <<buffer>>)
           e == IF p.status = "ok" /\ ~p.ret.nil
                THEN EvaluateCircuit(circ, p.ret.v)
                ELSE [status |-> "fail", result |-> NilSlice, circ |-> circ]
           d == IF e.status = "ok"
                THEN DecodeOutputVariables(circ, e.result.v)
                ELSE [status |-> "ok", ret |-> NilSlice]
       IN  /\ call' = [op |-> "roundTrip", buffer |-> buffer, packed |-> p.ret,
                       evaluated |-> e.result, decoded |-> d.ret,
                       status |-> IF "panic" \in {p.status, e.status, d.status}
                                  THEN "panic" ELSE "ok"]
           /\ circ' = e.circ

NextCodec ==
    \/ call.op = "new" /\ \E w \in Partitions : InitializeCodec(w)
    \/ BuildIdentity
    \/ Ready /\ \E b \in BufferLists : Pack(b)
    \/ Ready /\ \E v \in OutputVectors : Decode(v)
    \/ Ready /\ Built /\ \E b \in Buffers : RoundTrip(b)
    \/ Return

SpecCodec == Init /\ [][NextCodec]_vars

(***************************************************************************)
(* The gate graph: the references evaluateGate follows.                    *)
(***************************************************************************)
\* the gate indices of the circuit
Gates(c) == 0..(Len(c.Gates) - 1)

\* the gates evaluateGate recurses on from gate g
Preds(c, g) ==
    IF At(c.Gates, g).GateType = GateINPUT THEN {}
    ELSE {At(c.Gates, g).InFrom[k] : k \in DOMAIN At(c.Gates, g).InFrom} \cap Gates(c)

\* the gates reached from the set S in at most n steps (S included)
RECURSIVE ReachN(_, _, _)
ReachN(c, S, n) ==
    IF n = 0 THEN S
    ELSE ReachN(c, S \cup UNION {Preds(c, g) : g \in S}, n - 1)

Reach(c, S) == ReachN(c, S, Len(c.Gates))

\* g lies on a reference cycle
OnCycle(c, g) == g \in Reach(c, Preds(c, g))

\* the gates standing for the output wires
OutputGates(c) == {getOutputGate(c, o) : o \in 0..(c.NumOutputWires - 1)} \cap Gates(c)

\* some gate of the circuit lies on a reference cycle
HasCycle(c) == \E g \in Gates(c) : OnCycle(c, g)

\* some gate reached from an output wire lies on a reference cycle
HasReachableCycle(c) == \E g \in Reach(c, OutputGates(c)) : OnCycle(c, g)

\* the fan-in table of the interface contract: the inclusive range of each kind
TableRange(gateType) ==
    CASE gateType = GateINPUT -> 0..0
      [] gateType = GateOUTPUT -> 0..1
      [] gateType = GateAND -> 2..2
      [] gateType = GateOR -> 2..2
      [] gateType = GateNOT -> 1..1
      [] gateType = GateXOR -> 2..2
      [] gateType = GateCONST -> 0..0
      [] gateType = GateCOPY -> 1..1

\* the last call was EvaluateCircuit
Evaluated == call.op = "EvaluateCircuit"

(***************************************************************************)
(* C1: addGate rejects a predecessor list whose length is outside the      *)
(* kind's fan-in range: it returns -1 and leaves the circuit as it was;    *)
(* within the range it appends exactly one gate of the given kind,         *)
(* constant and predecessors and returns its index, the gate count before  *)
(* the call.                                                               *)
(***************************************************************************)
C1_AddGateArity ==
    [][call'.op = "addGate" =>
        IF Len(call'.inFrom) \notin TableRange(call'.gateType)
        THEN call'.ret = -1 /\ circ' = circ
        ELSE /\ call'.ret = Len(circ.Gates)
             /\ circ' = [circ EXCEPT !.Gates =
                            Append(@, [GateType |-> call'.gateType,
                                       ConstVal |-> call'.constVal,
                                       InFrom |-> call'.inFrom])]]_vars

\* an Output gate with two predecessors was rejected
C1_Witness ==
    /\ call.op = "addGate"
    /\ call.gateType = GateOUTPUT
    /\ Len(call.inFrom) = 2
    /\ call.ret = -1

(***************************************************************************)
(* C2: connectOutputWire wires an output slot at most once: the first call *)
(* on an unwired slot returns true and makes the given gate the slot's     *)
(* only predecessor, every later call on the slot returns false and        *)
(* changes nothing, and no call of any operation changes the predecessor   *)
(* of a wired slot.                                                        *)
(***************************************************************************)
C2_OutputWiredOnce ==
    [][/\ (call'.op = "connectOutputWire" /\ call'.outputNum < circ.NumOutputWires) =>
            LET g == circ.NumInputWires + call'.outputNum
            IN  IF At(circ.Gates, g).InFrom = <<>>
                THEN /\ call'.ret = "true"
                     /\ circ' = [circ EXCEPT !.Gates[g + 1].InFrom = <<call'.gateNum>>]
                ELSE /\ call'.ret = "false"
                     /\ circ' = circ
       /\ \A g \in OutputGates(circ) :
            At(circ.Gates, g).InFrom # <<>> =>
                At(circ'.Gates, g).InFrom = At(circ.Gates, g).InFrom]_vars

\* a second call on a wired output slot was refused
C2_Witness ==
    /\ call.op = "connectOutputWire"
    /\ call.outputNum < circ.NumOutputWires
    /\ call.ret = "false"

(***************************************************************************)
(* C3: the cycle property.                                                 *)
(***************************************************************************)
\* the longest run of evaluateGate calls one EvaluateCircuit call can make: in
\* the pass of one output wire each gate is entered at most once, and an
\* entered gate makes at most two further calls
CallBound(c) == c.NumOutputWires * (1 + 2 * Len(c.Gates))

C4_ShapeMismatchFails ==
    (Evaluated /\ (Len(call.inputBits) # circ.NumInputWires \/ circ.NumOutputWires < 1)) =>
        /\ call.status = "fail"
        /\ call.result = NilSlice
        /\ call.st.calls = 0

\* a vector longer than the wire count was refused by a circuit with an output wire
C4_Witness ==
    /\ Evaluated
    /\ Len(call.inputBits) > circ.NumInputWires
    /\ circ.NumOutputWires >= 1
    /\ call.status = "fail"
    /\ call.result = NilSlice

(***************************************************************************)
(* C5: EvaluateCircuit is all-or-nothing: unless every output wire         *)
(* evaluates successfully it returns no output vector, and on success the  *)
(* vector has NumOutputWires elements, the i-th being the value of the     *)
(* output gate NumInputWires+i.                                            *)
(***************************************************************************)
C5_AllOrNothing ==
    Evaluated =>
        IF call.status = "ok"
        THEN /\ ~call.result.nil
             /\ Len(call.result.v) = circ.NumOutputWires
             /\ \A i \in 0..(circ.NumOutputWires - 1) :
                  /\ At(call.st.calculated, circ.NumInputWires + i)
                  /\ At(call.result.v, i) = At(call.st.values, circ.NumInputWires + i)
        ELSE call.status = "fail" => call.result = NilSlice

\* the first output wire was computed and a later one failed: no vector is returned
C5_Witness ==
    /\ Evaluated
    /\ call.status = "fail"
    /\ circ.NumOutputWires = 2
    /\ Len(call.inputBits) = circ.NumInputWires
    /\ At(call.st.calculated, circ.NumInputWires)
    /\ call.result = NilSlice

(***************************************************************************)
(* C6: truth-table conformance.  In a successful evaluation every gate     *)
(* that was computed has the value its kind prescribes from the values of  *)
(* its predecessors, an Input gate the input bit of its index; and the     *)
(* And and Xor circuits of the concrete scenarios map the listed inputs to *)
(* the listed outputs.                                                     *)
(***************************************************************************)
\* the value memoized for gate g by the last evaluation
Value(g) == At(call.st.values, g)

\* gate g was computed by the last evaluation
Computed(g) == InRange(call.st.calculated, g) /\ At(call.st.calculated, g)

\* the value gate g must have by its kind's truth table
Conforms(g) ==
    LET gate == At(circ.Gates, g)
        t == gate.GateType
        p == gate.InFrom
    IN  CASE t = GateINPUT -> Value(g) = At(call.inputBits, g)
          [] t \in {GateAND, GateOR, GateXOR} ->
                /\ Len(p) = 2 /\ Computed(p[1]) /\ Computed(p[2])
                /\ Value(g) = (CASE t = GateAND -> Value(p[1]) /\ Value(p[2])
                                 [] t = GateOR -> Value(p[1]) \/ Value(p[2])
                                 [] t = GateXOR -> Value(p[1]) # Value(p[2]))
          [] t = GateNOT ->
                Len(p) = 1 /\ Computed(p[1]) /\ Value(g) = ~Value(p[1])
          [] t \in {GateCOPY, GateOUTPUT} ->
                Len(p) = 1 /\ Computed(p[1]) /\ Value(g) = Value(p[1])
          [] OTHER -> TRUE

\* the circuit of the scenarios: two input wires, one output wire, one gate
\* of the given kind wired from both inputs to the output
Scenario(gateType) ==
    /\ circ.NumInputWires = 2
    /\ circ.NumOutputWires = 1
    /\ circ.Gates = <<Gate(GateINPUT, FALSE, <<>>), Gate(GateINPUT, FALSE, <<>>),
                      Gate(GateOUTPUT, FALSE, <<3>>), Gate(gateType, FALSE, <<0, 1>>)>>

\* the last evaluation mapped the input vector in to the output vector out
Maps(in, out) ==
    call.inputBits = in => (call.status = "ok" /\ call.result = Slice(out))

C6_TruthTables ==
    Evaluated =>
        /\ call.status = "ok" => \A g \in Gates(circ) : Computed(g) => Conforms(g)
        /\ Scenario(GateAND) =>
              /\ Maps(<<TRUE, FALSE>>, <<FALSE>>)
              /\ Maps(<<TRUE, TRUE>>, <<TRUE>>)
              /\ Maps(<<FALSE, FALSE>>, <<FALSE>>)
        /\ Scenario(GateXOR) =>
              /\ Maps(<<TRUE, TRUE>>, <<FALSE>>)
              /\ Maps(<<TRUE, FALSE>>, <<TRUE>>)

\* the Xor circuit of the scenario was evaluated on [true, true]
C6_Witness ==
    /\ Evaluated
    /\ Scenario(GateXOR)
    /\ call.inputBits = <<TRUE, TRUE>>
    /\ call.status = "ok"
    /\ call.result = Slice(<<FALSE>>)

(***************************************************************************)
(* C7: EvaluateCircuit changes neither the circuit nor the caller's input  *)
(* vector, and its scratch memory starts clean: the only gates marked      *)
(* visited or calculated when it returns are gates it reached from an      *)
(* output wire in this call.                                               *)
(***************************************************************************)
C7_EvaluateIsPure ==
    [][call'.op = "EvaluateCircuit" =>
        /\ circ' = circ
        /\ call'.inputAfter = call'.inputBits
        /\ \A g \in Gates(circ) :
              (InRange(call'.st.visited, g)
                 /\ (At(call'.st.visited, g) \/ At(call'.st.calculated, g)))
                 => g \in Reach(circ, OutputGates(circ))]_vars

\* a successful evaluation of a circuit with a gate beyond the placeholders
C7_Witness ==
    /\ Evaluated
    /\ call.status = "ok"
    /\ Len(circ.Gates) > circ.NumInputWires + circ.NumOutputWires
    /\ \E g \in Gates(circ) : Computed(g) /\ Value(g)
    /\ call.inputAfter = call.inputBits

(***************************************************************************)
(* The codec claims.                                                       *)
(***************************************************************************)
\* bit b of the byte x
BitOf(x, b) == (x \div (2 ^ b)) % 2 = 1

\* the first wire of the i-th variable (i from 1) of a partition
FirstWire(wires, i) == SumTo(wires, i - 1)

\* the number of bytes that hold n bits
ByteCount(n) == (n + 7) \div 8

\* the buffer with zero bytes put in front of it up to n bytes
LeftPad(buffer, n) == [q \in 1..(n - Len(buffer)) |-> 0] \o buffer

(***************************************************************************)
(* C8: the codec round trip.  On an identity circuit, a buffer whose       *)
(* bit-length does not exceed the wire count of the first variable comes   *)
(* back from DecodeOutputVariables(EvaluateCircuit(PadInputsToBoolArray(   *)
(* [buffer]))) as the first output buffer: the same bytes in the same      *)
(* order behind zero bytes that fill it up to ceil(wires/8) bytes.         *)
(***************************************************************************)
C8_RoundTrip ==
    (/\ call.op = "roundTrip"
     /\ IsIdentity
     /\ circ.NumInputVars >= 1
     /\ Len(call.buffer) * 8 <= circ.NumWiresIV[1]) =>
        /\ call.status = "ok"
        /\ ~call.decoded.nil
        /\ call.decoded.v[1] = LeftPad(call.buffer, ByteCount(circ.NumWiresIV[1]))

\* a buffer of two different bytes came back as it was
C8_Witness ==
    /\ call.op = "roundTrip"
    /\ IsIdentity
    /\ Len(call.buffer) = 2
    /\ call.buffer[1] # call.buffer[2]
    /\ ~call.decoded.nil
    /\ call.decoded.v[1] = call.buffer

(***************************************************************************)
(* C9: the bit mapping of PadInputsToBoolArray.  A result has              *)
(* NumInputWires elements; the variables take consecutive wire ranges in   *)
(* variable order; the wire at offset j of variable i holds bit j mod 8 of *)
(* the byte at position len(buffer)-1-j/8 of the i-th buffer when j/8 is   *)
(* below the buffer's length, false otherwise and when no i-th buffer was  *)
(* given.  One variable of 8 wires packed from the byte 0x05 gives         *)
(* [true,false,true,false,false,false,false,false].                        *)
(***************************************************************************)
C9_PackBits ==
    call.op = "PadInputsToBoolArray" =>
        /\ (call.status = "ok" /\ ~call.ret.nil) =>
              /\ Len(call.ret.v) = circ.NumInputWires
              /\ \A i \in 1..circ.NumInputVars :
                   \A j \in 0..(circ.NumWiresIV[i] - 1) :
                      call.ret.v[FirstWire(circ.NumWiresIV, i) + j + 1] =
                         IF i <= Len(call.inputBufs) /\ (j \div 8) < Len(call.inputBufs[i])
                         THEN BitOf(call.inputBufs[i][Len(call.inputBufs[i]) - (j \div 8)], j % 8)
                         ELSE FALSE
        /\ (circ.NumWiresIV = <<8>> /\ call.inputBufs = <<<<5>>>>) =>
              call.ret = Slice(<<TRUE, FALSE, TRUE, FALSE, FALSE, FALSE, FALSE, FALSE>>)

\* a buffer of two different bytes was packed into a variable of 16 wires
C9_Witness ==
    /\ call.op = "PadInputsToBoolArray"
    /\ circ.NumWiresIV = <<16>>
    /\ call.inputBufs = <<<<5, 128>>>>
    /\ ~call.ret.nil

(***************************************************************************)
(* C10: the bit mapping of DecodeOutputVariables.  For an output vector of *)
(* NumOutputWires elements it returns NumOutputVars buffers in variable    *)
(* order; buffer i is made of the wires of variable i, has ceil(bits/8)    *)
(* bytes, and bit k of the variable is bit k mod 8 of the byte at position *)
(* byteCount-1-k/8; every other bit is zero.                               *)
(***************************************************************************)
C10_UnpackBits ==
    (call.op = "DecodeOutputVariables" /\ Len(call.outWires) = circ.NumOutputWires) =>
        /\ call.status = "ok"
        /\ ~call.ret.nil
        /\ Len(call.ret.v) = circ.NumOutputVars
        /\ \A i \in 1..circ.NumOutputVars :
             LET bits == circ.NumWiresOV[i]
                 buf == call.ret.v[i]
             IN  /\ Len(buf) = ByteCount(bits)
                 /\ \A q \in 0..(Len(buf) - 1) :
                      /\ buf[q + 1] \in 0..255
                      /\ \A b \in 0..7 :
                           LET k == (Len(buf) - 1 - q) * 8 + b
                           IN  BitOf(buf[q + 1], b) =
                                 (k < bits /\ call.outWires[FirstWire(circ.NumWiresOV, i) + k + 1])

\* the second of two variables was decoded into two bytes, the upper one not zero
C10_Witness ==
    /\ call.op = "DecodeOutputVariables"
    /\ circ.NumOutputVars = 2
    /\ ~call.ret.nil
    /\ Len(call.ret.v[2]) = 2
    /\ call.ret.v[2][1] # 0

(***************************************************************************)
(* C11: codec errors return no result and leave the circuit alone.         *)
(* PadInputsToBoolArray returns nil when it is given more buffers than     *)
(* NumInputVars or when a buffer has more bits (8 x its byte length) than  *)
(* its variable has wires, and a vector otherwise; DecodeOutputVariables   *)
(* returns nil when the output vector's length differs from                *)
(* NumOutputWires; neither call changes the circuit, neither panics.       *)
(***************************************************************************)
\* the i-th buffer has more bits than the i-th variable has wires
BufferTooLarge(c, inputBufs, i) == Len(inputBufs[i]) * 8 > c.NumWiresIV[i]

\* the buffer list is one PadInputsToBoolArray must refuse
PackError(c, inputBufs) ==
    \/ Len(inputBufs) > c.NumInputVars
    \/ \E i \in 1..Len(inputBufs) : BufferTooLarge(c, inputBufs, i)

C11_CodecErrors ==
    [][/\ call'.op = "PadInputsToBoolArray" =>
            /\ circ' = circ
            /\ call'.status = "ok"
            /\ call'.ret.nil = PackError(circ, call'.inputBufs)
       /\ call'.op = "DecodeOutputVariables" =>
            /\ circ' = circ
            /\ call'.status = "ok"
            /\ call'.ret.nil = (Len(call'.outWires) # circ.NumOutputWires)]_vars

\* two buffers for two variables, the first fits and the second is too large
C11_Witness ==
    /\ call.op = "PadInputsToBoolArray"
    /\ circ.NumInputVars = 2
    /\ Len(call.inputBufs) = 2
    /\ ~BufferTooLarge(circ, call.inputBufs, 1)
    /\ BufferTooLarge(circ, call.inputBufs, 2)
    /\ call.ret = NilSlice

(***************************************************************************)
(* C12: validCircuit returns false exactly when the circuit has fewer      *)
(* gates than NumInputWires + NumOutputWires or some gate's predecessor    *)
(* list has a length outside its kind's fan-in range, and true otherwise;  *)
(* the call leaves the circuit as it was, so a call that follows gives the *)
(* same answer.                                                            *)
(***************************************************************************)
\* what the interface contract makes of the circuit c
StructurallyValid(c) ==
    /\ Len(c.Gates) >= c.NumInputWires + c.NumOutputWires
    /\ \A g \in Gates(c) : Len(At(c.Gates, g).InFrom) \in TableRange(At(c.Gates, g).GateType)

C12_ValidCircuit ==
    [][call'.op = "validCircuit" =>
        /\ circ' = circ
        /\ call'.ret = StructurallyValid(circ)
        /\ call'.ret = StructurallyValid(circ')]_vars

\* a circuit with a gate whose fan-in is out of range was found invalid
C12_Witness ==
    /\ call.op = "validCircuit"
    /\ call.ret = FALSE
    /\ Len(circ.Gates) >= circ.NumInputWires + circ.NumOutputWires
    /\ \E g \in Gates(circ) :
          Len(At(circ.Gates, g).InFrom) \notin TableRange(At(circ.Gates, g).GateType)

(***************************************************************************)
(* C13: the positional convention.  After initializeCircuit and any        *)
(* sequence of addGate, addGate2 and connectOutputWire calls, the Input    *)
(* gates of the circuit are exactly the gates at the indices               *)
(* [0, NumInputWires) and its Output gates exactly the gates at            *)
(* [NumInputWires, NumInputWires + NumOutputWires).                        *)
(***************************************************************************)
\* initializeCircuit has been called
Initialized == call.op # "new"

\* g is the index of an input wire's gate
InputPosition(c, g) == g < c.NumInputWires

\* g is the index of an output wire's gate
OutputPosition(c, g) == g >= c.NumInputWires /\ g < c.NumInputWires + c.NumOutputWires

C13_PositionalConvention ==
    Initialized =>
        \A g \in Gates(circ) :
            /\ (At(circ.Gates, g).GateType = GateINPUT) = InputPosition(circ, g)
            /\ (At(circ.Gates, g).GateType = GateOUTPUT) = OutputPosition(circ, g)

\* an Input gate added behind the placeholders and wired to an output wire was
\* evaluated on a vector of the right length: the gate's index is outside the vector
C13_LateInputGatePanics ==
    /\ Evaluated
    /\ Len(call.inputBits) = circ.NumInputWires
    /\ \E g \in Reach(circ, OutputGates(circ)) :
          At(circ.Gates, g).GateType = GateINPUT /\ ~InputPosition(circ, g)
    /\ call.status = "panic"

(***************************************************************************)
(* C14: no forward references.  After any sequence of builder calls no     *)
(* gate's predecessor list holds the index of a gate added after it, nor   *)
(* the gate's own index.                                                   *)
(***************************************************************************)
C14_NoForwardReferences ==
    Initialized =>
        \A g \in Gates(circ) :
            \A k \in DOMAIN At(circ.Gates, g).InFrom : At(circ.Gates, g).InFrom[k] < g

\* addGate accepted a gate other than an Output gate whose predecessor list
\* names the gate itself or a gate not yet added
C14_ForwardReferenceAccepted ==
    /\ call.op = "addGate"
    /\ call.gateType # GateOUTPUT
    /\ call.ret >= 0
    /\ \E k \in DOMAIN call.inFrom : call.inFrom[k] >= call.ret
    /\ At(circ.Gates, call.ret).InFrom = call.inFrom

(***************************************************************************)
(* C15: a Const gate behind an output wire.  For a circuit whose one       *)
(* output wire is wired to a Const gate added with no predecessors,        *)
(* EvaluateCircuit on a vector of NumInputWires bits returns success and   *)
(* the output bit is the gate's stored constant.                           *)
(***************************************************************************)
\* the gate the first output wire is wired to is gate g, a Const gate without predecessors
ConstBehindOutput(g) ==
    /\ circ.NumOutputWires = 1
    /\ At(circ.Gates, circ.NumInputWires).InFrom = <<g>>
    /\ g \in Gates(circ)
    /\ At(circ.Gates, g).GateType = GateCONST
    /\ At(circ.Gates, g).InFrom = <<>>

C15_ConstEvaluates ==
    (Evaluated /\ Len(call.inputBits) = circ.NumInputWires) =>
        \A g \in GateIds :
            ConstBehindOutput(g) =>
                /\ call.status = "ok"
                /\ call.result = Slice(<<At(circ.Gates, g).ConstVal>>)

\* evaluating the constant true behind the output wire ended in a panic
C15_ConstGatePanics ==
    /\ Evaluated
    /\ Len(call.inputBits) = circ.NumInputWires
    /\ \E g \in GateIds : ConstBehindOutput(g) /\ At(circ.Gates, g).ConstVal
    /\ call.status = "panic"

(***************************************************************************)
(* C16: an arity mismatch met during evaluation is a failure, not a crash. *)
(* For a circuit that passes validCircuit and has an output wire that was  *)
(* never wired (an Output gate without a predecessor), EvaluateCircuit on  *)
(* a vector of NumInputWires bits returns failure and no output vector.    *)
(***************************************************************************)
\* some output wire of the circuit was never wired
HasUnwiredOutput(c) == \E g \in OutputGates(c) : At(c.Gates, g).InFrom = <<>>

C16_UnwiredOutputFails ==
    (/\ Evaluated
     /\ Len(call.inputBits) = circ.NumInputWires
     /\ validCircuit(circ)
     /\ HasUnwiredOutput(circ)) =>
        /\ call.status = "fail"
        /\ call.result = NilSlice

\* evaluating a valid circuit whose first output wire is unwired ended in a panic
C16_UnwiredOutputPanics ==
    /\ Evaluated
    /\ Len(call.inputBits) = circ.NumInputWires
    /\ validCircuit(circ)
    /\ circ.NumOutputWires >= 1
    /\ At(circ.Gates, circ.NumInputWires).GateType = GateOUTPUT
    /\ At(circ.Gates, circ.NumInputWires).InFrom = <<>>
    /\ call.status = "panic"

(***************************************************************************)
(* C17: the circuit is append-only.  After initializeCircuit the gate      *)
(* count is at least NumInputWires + NumOutputWires and never decreases;   *)
(* no call changes the kind or the constant of an existing gate; and the   *)
(* only change made to the predecessor list of an existing gate is         *)
(* connectOutputWire turning the empty list of an Output gate into a list  *)
(* of one element.                                                         *)
(***************************************************************************)
\* the step leaves gate g as it was, or it is connectOutputWire wiring the Output gate g
GateKept(g) ==
    LET old == At(circ.Gates, g)
        new == At(circ'.Gates, g)
    IN  /\ new.GateType = old.GateType
        /\ new.ConstVal = old.ConstVal
        /\ \/ new.InFrom = old.InFrom
           \/ /\ call'.op = "connectOutputWire"
              /\ old.GateType = GateOUTPUT
              /\ old.InFrom = <<>>
              /\ Len(new.InFrom) = 1

\* the step neither removes nor rewrites a gate
AppendOnlyStep ==
    /\ Len(circ.Gates) >= circ.NumInputWires + circ.NumOutputWires
    /\ Len(circ'.Gates) >= Len(circ.Gates)
    /\ \A g \in Gates(circ) : GateKept(g)

C17_AppendOnly ==
    [][Initialized => AppendOnlyStep]_vars

\* connectOutputWire, given the output number one past the last output wire,
\* gave a predecessor to a gate that is not an Output gate
C17_OtherGateRewired ==
    /\ call.op = "connectOutputWire"
    /\ call.ret = "true"
    /\ call.outputNum >= circ.NumOutputWires
    /\ At(circ.Gates, circ.NumInputWires + call.outputNum).GateType # GateOUTPUT
    /\ At(circ.Gates, circ.NumInputWires + call.outputNum).InFrom = <<call.gateNum>>

\* what holds of C17: the same, for the steps other than a connectOutputWire
\* call with an output number that names no output wire
C17_AppendOnlyInRange ==
    [][(/\ Initialized
        /\ call'.op = "connectOutputWire" => call'.outputNum < circ.NumOutputWires)
          => AppendOnlyStep]_vars

(***************************************************************************)
(* C18: memoization shared across the output wires does not mask a cycle.  *)
(* EvaluateCircuit never returns success when a gate reached from an       *)
(* output wire lies on a reference cycle, and a gate is marked calculated  *)
(* only when all the gates it refers to are marked calculated.             *)
(***************************************************************************)
\* every gate the last evaluation marked calculated refers to calculated gates only
DoneAfterPredecessors ==
    \A g \in Gates(circ) :
        Computed(g) => \A q \in Preds(circ, g) : Computed(q)

C18_CycleNeverSucceeds ==
    Evaluated =>
        /\ HasReachableCycle(circ) => call.status # "ok"
        /\ DoneAfterPredecessors

\* an evaluation returned success although a Const gate that had been given a
\* predecessor lies on a cycle behind an output wire
C18_ConstOnCycleSucceeds ==
    /\ Evaluated
    /\ call.status = "ok"
    /\ \E g \in Reach(circ, OutputGates(circ)) :
          /\ OnCycle(circ, g)
          /\ At(circ.Gates, g).GateType = GateCONST
          /\ Computed(g)
          /\ \E q \in Preds(circ, g) : ~Computed(q) \/ q = g

\* what holds of C18: the same, for the circuits that pass validCircuit
C18_ValidCycleNeverSucceeds ==
    (Evaluated /\ validCircuit(circ)) =>
        /\ HasReachableCycle(circ) => call.status # "ok"
        /\ DoneAfterPredecessors

\* the first output wire was computed and memoized, the second one leads into
\* a cycle, and the evaluation of the valid circuit failed
C18_SecondOutputCycleFails ==
    /\ Evaluated
    /\ validCircuit(circ)
    /\ circ.NumOutputWires = 2
    /\ Computed(circ.NumInputWires)
    /\ \E g \in Reach(circ, {circ.NumInputWires + 1}) : OnCycle(circ, g)
    /\ call.status = "fail"

(***************************************************************************)
(* C19: no spurious cycle errors.                                          *)
(***************************************************************************)
\* the circuits C19 speaks of: made of Input, And, Or, Xor, Not, Copy and Output
\* gates, every predecessor index in range, the Input gates within
\* [0, NumInputWires), every Output gate wired, no reference cycle
WellFormed(c) ==
    /\ \A g \in Gates(c) :
          LET gate == At(c.Gates, g)
          IN  /\ gate.GateType \in {GateINPUT, GateAND, GateOR, GateXOR, GateNOT, GateCOPY, GateOUTPUT}
              /\ \A k \in DOMAIN gate.InFrom : gate.InFrom[k] \in Gates(c)
              /\ gate.GateType = GateINPUT => InputPosition(c, g)
              /\ gate.GateType = GateOUTPUT => Len(gate.InFrom) = 1
    /\ ~HasCycle(c)

\* the cycle test has fired only for gates on the recursion stack or failed in this pass
NoSpuriousCycle == ~call.st.spurious

\* C19 as stated: EvaluateCircuit succeeds on every well-formed circuit and
\* input vector of NumInputWires bits, and the cycle test fires only for a gate
\* on the recursion stack or a gate that already failed in this pass
C19_WellFormedSucceeds ==
    Evaluated =>
        /\ (WellFormed(circ) /\ Len(call.inputBits) = circ.NumInputWires) =>
              call.status = "ok"
        /\ NoSpuriousCycle

\* C19, amended: EvaluateCircuit succeeds on every well-formed circuit with at
\* least one output wire and input vector of NumInputWires bits, also when a
\* gate is the predecessor of several gates or is reached from several output
\* wires; in every evaluation the cycle test fires only for a gate on the
\* recursion stack or a gate that already failed in this pass
C19_NoSpuriousCycleFailure ==
    Evaluated =>
        /\ (/\ WellFormed(circ)
            /\ circ.NumOutputWires >= 1
            /\ Len(call.inputBits) = circ.NumInputWires) =>
              /\ call.status = "ok"
              /\ call.st.failed = {}
        /\ NoSpuriousCycle

\* two output wires wired to one gate that has the same gate as both its
\* predecessors: the evaluation succeeded
C19_Witness ==
    /\ Evaluated
    /\ WellFormed(circ)
    /\ circ.NumOutputWires = 2
    /\ \E g \in Gates(circ) :
          /\ At(circ.Gates, circ.NumInputWires).InFrom = <<g>>
          /\ At(circ.Gates, circ.NumInputWires + 1).InFrom = <<g>>
          /\ Len(At(circ.Gates, g).InFrom) = 2
          /\ At(circ.Gates, g).InFrom[1] = At(circ.Gates, g).InFrom[2]
    /\ call.status = "ok"

(***************************************************************************)
(* C20: circuits made by the builder are structurally valid.  After        *)
(* initializeCircuit and any sequence of addGate, addGate2 and             *)
(* connectOutputWire calls, accepted or refused, connectOutputWire being   *)
(* given output numbers in [0, NumOutputWires) only, every gate's          *)
(* predecessor list has a length within its kind's fan-in range and        *)
(* validCircuit returns true.                                              *)
(***************************************************************************)
C20_BuilderKeepsValid ==
    Initialized =>
        /\ StructurallyValid(circ)
        /\ validCircuit(circ)
        /\ call.op = "validCircuit" => call.ret

\* validCircuit returned true for a circuit with both output wires wired to a
\* gate added after initializeCircuit
C20_Witness ==
    /\ call.op = "validCircuit"
    /\ call.ret
    /\ circ.NumOutputWires = 2
    /\ Len(circ.Gates) > circ.NumInputWires + circ.NumOutputWires
    /\ \A g \in OutputGates(circ) :
          /\ Len(At(circ.Gates, g).InFrom) = 1
          /\ At(circ.Gates, g).InFrom[1] >= circ.NumInputWires + circ.NumOutputWires

====
